---- MODULE Spec2Model ----
(***************************************************************************)
(* Block-range resolution and balance reconciliation of the DeFi-Center    *)
(* trackers (trackers/ausdc.py, trackers/steth.py).                         *)
(*                                                                         *)
(* The chain is a sequence of blocks 0..latest (block b is chain[b+1]).    *)
(* Time is scaled: a UTC day is DayLen ticks, day d covers the ticks       *)
(* d*DayLen .. d*DayLen + DayLen - 1 (00:00:00 .. 23:59:59).               *)
(***************************************************************************)
EXTENDS Integers, Sequences, FiniteSets, TLC

VARIABLES
    chain,      \* the node's chain: Seq of [ts, logs, accr]
    pc,         \* position of the invocation: idle / day / end / done / empty
    tracker,    \* "atoken" (ausdc.py) or "steth" (steth.py)
    start_dt,   \* first date of the walk
    end_dt,     \* last date of the walk (end_iso, or today for stETH)
    d,          \* loop variable of the per-day walk
    latest,     \* head block number read at the start of the invocation
    latest_ts,  \* its timestamp
    start_blk,  \* start block resolved for day d
    rows,       \* records produced so far
    res,        \* last answer of the timestamp-to-block resolver
    rpc,        \* one _rpc call: its loop state, what it met and how it ended
    entry,      \* one call of an engine entry point: arguments, position, RPCs, outcome
    prev,       \* what an earlier invocation with the same arguments returned
    accum,      \* the dashboard's accumulated results: steth_accum and atoken_accum
    ex          \* one run of a dashboard executor: window, position, what it reported

vars == <<chain, pc, tracker, start_dt, end_dt, d, latest, latest_ts, start_blk, rows, res,
          rpc, entry, prev, accum, ex>>

(* The state of the callers that an invocation of the day walk or of the
   resolver leaves alone. *)
aside == <<rpc, entry, prev, accum, ex>>

(* The locals of the day walk. *)
walk == <<pc, tracker, start_dt, end_dt, d, latest, latest_ts, start_blk, rows>>

----------------------------------------------------------------------------
(* Bounds of the model *)

MaxBlocks == 3          \* blocks of the chain the walk runs against
MaxProbeBlocks == 5     \* blocks of the chain the resolver alone runs against

(* One UTC day in ticks: 00:00:00 is tick 0 of the day, 23:59:59 its last. *)
DayLen == 2

Days == {0, 1, 2}       \* the dates a caller asks for and the chain lives in
MaxTs == DayLen * Cardinality(Days) - 1   \* the last tick of the last day
LogCounts == {0, 1, 2}  \* how many Transfer logs the chain holds in all
Amounts == {1}          \* the value of a Transfer log, in smallest units
Accruals == {0, 1}      \* what the protocol credits to the wallet in a block

(* Program constants *)
STETH_GENESIS_TS == 0
SPAN == 50000
STETH_CHUNK == 5000
ATOKEN_CHUNK == 50000

NoBlock == -1            \* Python's None for a block number
ZERO == "zero"           \* address(0)
WALLET == "wallet"
PEER == "peer"             \* any other account
ANY == "any"             \* a None topic: matches every address

----------------------------------------------------------------------------
(* The chain as the JSON-RPC endpoint shows it *)

_latest_block(c) == Len(c) - 1

BlockTs(c, b) == c[b + 1].ts

Min(a, b) == IF a <= b THEN a ELSE b

RECURSIVE SumData(_)
SumData(ls) == IF ls = <<>> THEN 0 ELSE Head(ls).data + SumData(Tail(ls))

(* Net change of the wallet's balance made by block b: transfers in, transfers
   out and the protocol's accrual. *)
BlockDelta(c, b) ==
    LET ls == c[b + 1].logs
        ins == SelectSeq(ls, LAMBDA l: l.to = WALLET)
        outs == SelectSeq(ls, LAMBDA l: l.from = WALLET)
    IN  SumData(ins) - SumData(outs) + c[b + 1].accr

RECURSIVE _balance_of(_, _)
_balance_of(c, b) ==
    IF b < 0 THEN 0 ELSE _balance_of(c, b - 1) + BlockDelta(c, b)

TopicMatch(l, topics) ==
    /\ (topics[1] = ANY \/ l.from = topics[1])
    /\ (topics[2] = ANY \/ l.to = topics[2])

RECURSIVE StampLogs(_, _)
StampLogs(ls, b) ==
    IF ls = <<>> THEN <<>>
    ELSE <<[blockNumber |-> b, from |-> Head(ls).from, to |-> Head(ls).to,
            data |-> Head(ls).data]>> \o StampLogs(Tail(ls), b)

(* eth_getLogs: the Transfer logs of blocks fromBlock..toBlock that match the
   topics, in block order. *)
RECURSIVE eth_getLogs(_, _, _, _)
eth_getLogs(c, fromBlock, toBlock, topics) ==
    IF fromBlock > toBlock \/ fromBlock > _latest_block(c) THEN <<>>
    ELSE SelectSeq(StampLogs(c[fromBlock + 1].logs, fromBlock),
                   LAMBDA l: TopicMatch(l, topics))
         \o eth_getLogs(c, fromBlock + 1, toBlock, topics)

----------------------------------------------------------------------------
(* Timestamp-to-block resolver *)

RECURSIVE ausdc_search(_, _, _, _, _, _)
ausdc_search(c, ts, mode, lo, hi, best) ==
    IF lo > hi THEN best
    ELSE LET mid == (lo + hi) \div 2
             tsm == BlockTs(c, mid)
         IN  IF tsm = ts
               THEN IF mode = "before"
                      THEN ausdc_search(c, ts, mode, mid + 1, hi, mid)
                      ELSE ausdc_search(c, ts, mode, lo, mid - 1, mid)
             ELSE IF tsm < ts
               THEN ausdc_search(c, ts, mode, mid + 1, hi,
                                 IF mode = "before" THEN mid ELSE best)
             ELSE ausdc_search(c, ts, mode, lo, mid - 1,
                               IF mode = "after" THEN mid ELSE best)

(* The search stops one block short of the head. *)
ausdc_block_by_time_short(c, ts, mode) ==
    LET best == ausdc_search(c, ts, mode, 0, _latest_block(c) - 1, NoBlock)
    IN  IF best = NoBlock THEN 0 ELSE best

ausdc_block_by_time(c, ts, mode) ==
    LET best == ausdc_search(c, ts, mode, 0, _latest_block(c), NoBlock)
    IN  IF best = NoBlock THEN 0 ELSE best

RECURSIVE steth_search(_, _, _, _, _, _)
steth_search(c, ts, mode, lo, hi, best) ==
    IF lo > hi THEN best
    ELSE LET mid == (lo + hi) \div 2
             tsm == BlockTs(c, mid)
         IN  IF tsm = ts
               THEN IF mode = "before"
                      THEN steth_search(c, ts, mode, mid + 1, hi, mid)
                      ELSE steth_search(c, ts, mode, lo, mid - 1, mid)
             ELSE IF tsm < ts
               THEN steth_search(c, ts, mode, mid + 1, hi,
                                 IF mode = "before" THEN mid ELSE best)
             ELSE steth_search(c, ts, mode, lo, mid - 1,
                               IF mode = "after" THEN mid ELSE best)

(* The search starts at block 1. *)
steth_block_by_time_from1(c, ts, mode) ==
    LET best == steth_search(c, ts, mode, 1, _latest_block(c), NoBlock)
    IN  IF best = NoBlock THEN 0 ELSE best

steth_block_by_time(c, ts, mode) ==
    LET best == steth_search(c, ts, mode, 0, _latest_block(c), NoBlock)
    IN  IF best = NoBlock THEN 0 ELSE best

(* The two modes are taken for each other. *)
_block_by_time_flipped(t, c, ts, mode) ==
    LET other == IF mode = "before" THEN "after" ELSE "before"
    IN  IF t = "atoken" THEN ausdc_block_by_time(c, ts, other)
        ELSE steth_block_by_time(c, ts, other)

_block_by_time(t, c, ts, mode) ==
    IF t = "atoken" THEN ausdc_block_by_time(c, ts, mode)
    ELSE steth_block_by_time(c, ts, mode)

----------------------------------------------------------------------------
(* Chunked log retrieval *)

RECURSIVE steth_chunks(_, _, _, _, _, _, _)
steth_chunks(c, b, end_block, topics, stop_at_first, chunk_size, out) ==
    IF b > end_block THEN out
    ELSE LET e == Min(end_block, b + chunk_size - 1)
             logs == eth_getLogs(c, b, e, topics)
         IN  IF stop_at_first /\ logs # <<>> THEN <<logs[1]>>
             ELSE steth_chunks(c, e + 1, end_block, topics, stop_at_first,
                               chunk_size, out \o logs)

steth_get_logs_chunked(c, start_block, end_block, topics, stop_at_first, chunk_size) ==
    steth_chunks(c, start_block, end_block, topics, stop_at_first, chunk_size, <<>>)

RECURSIVE ausdc_chunks(_, _, _, _, _, _, _)
ausdc_chunks(c, b, end_block, topics, stop_at_first, chunk_size, out) ==
    IF b > end_block THEN out
    ELSE LET e == Min(end_block, b + chunk_size - 1)
             logs == eth_getLogs(c, b, e, topics)
         IN  IF logs # <<>> /\ stop_at_first THEN <<logs[1]>>
             ELSE ausdc_chunks(c, e + 1, end_block, topics, stop_at_first,
                               chunk_size, out \o logs)

ausdc_get_logs_chunked(c, start_block, end_block, topics, stop_at_first, chunk_size) ==
    ausdc_chunks(c, start_block, end_block, topics, stop_at_first, chunk_size, <<>>)

----------------------------------------------------------------------------
(* First stETH activity of the wallet *)

_first_log_in_range(c, lo, hi) ==
    LET li == steth_get_logs_chunked(c, lo, hi, <<ANY, WALLET>>, TRUE, STETH_CHUNK)
        cand == IF li # <<>> THEN li[1].blockNumber ELSE NoBlock
        lo2 == steth_get_logs_chunked(c, lo, hi, <<WALLET, ANY>>, TRUE, STETH_CHUNK)
    IN  IF lo2 # <<>>
          THEN IF cand = NoBlock THEN lo2[1].blockNumber
               ELSE Min(cand, lo2[1].blockNumber)
          ELSE cand

RECURSIVE RefineFirst(_, _, _, _)
RefineFirst(c, ans, L, R) ==
    IF L > R THEN ans
    ELSE LET mid == (L + R) \div 2
             hit == _first_log_in_range(c, L, mid)
         IN  IF hit # NoBlock THEN RefineFirst(c, Min(ans, hit), L, hit - 1)
             ELSE RefineFirst(c, ans, mid + 1, R)

RECURSIVE ScanFirst(_, _, _)
ScanFirst(c, cur, head) ==
    IF cur > head THEN NoBlock
    ELSE LET hi == Min(head, cur + SPAN - 1)
             first == _first_log_in_range(c, cur, hi)
         IN  IF first # NoBlock THEN RefineFirst(c, first, cur, first)
             ELSE ScanFirst(c, hi + 1, head)

_find_first_activity_block(c) ==
    LET head == _latest_block(c)
        lo0 == steth_block_by_time(c, STETH_GENESIS_TS, "after")
        lo == IF lo0 <= 0 THEN 1 ELSE lo0
    IN  IF head = 0 THEN NoBlock ELSE ScanFirst(c, lo, head)

----------------------------------------------------------------------------
(* First aToken activity of the wallet: the balance search, then the logs *)

ATOKEN_GENESIS_TS == 0

NoDate == -1             \* Python's None for a date

RECURSIVE BalanceSearch(_, _, _, _)
BalanceSearch(c, lo, hi, ans) ==
    IF lo > hi THEN ans
    ELSE LET mid == (lo + hi) \div 2
         IN  IF _balance_of(c, mid) > 0 THEN BalanceSearch(c, lo, mid - 1, mid)
             ELSE BalanceSearch(c, mid + 1, hi, ans)

_find_first_nonzero_balance_block(c) ==
    LET head == _latest_block(c)
        lo0 == ausdc_block_by_time(c, ATOKEN_GENESIS_TS, "after")
        lo == IF lo0 <= 0 THEN 1 ELSE lo0
    IN  IF head = 0 THEN NoBlock ELSE BalanceSearch(c, lo, head, NoBlock)

(* The fallback takes the first Transfer log of the token, whoever it is
   between. *)
first_log_fallback_any(c) ==
    LET lo0 == ausdc_block_by_time(c, ATOKEN_GENESIS_TS, "after")
        start_block == IF lo0 <= 0 THEN 1 ELSE lo0
    IN  ausdc_get_logs_chunked(c, start_block, _latest_block(c), <<ANY, ANY>>,
                               TRUE, ATOKEN_CHUNK)

(* logs_in, and logs_out when there is no inbound log: the first log found,
   as a sequence of at most one log. *)
first_log_fallback(c) ==
    LET lo0 == ausdc_block_by_time(c, ATOKEN_GENESIS_TS, "after")
        start_block == IF lo0 <= 0 THEN 1 ELSE lo0
        logs_in == ausdc_get_logs_chunked(c, start_block, _latest_block(c),
                                          <<ANY, WALLET>>, TRUE, ATOKEN_CHUNK)
    IN  IF logs_in # <<>> THEN logs_in
        ELSE ausdc_get_logs_chunked(c, start_block, _latest_block(c),
                                    <<WALLET, ANY>>, TRUE, ATOKEN_CHUNK)

get_first_activity_date_atoken(c) ==
    LET fb == _find_first_nonzero_balance_block(c)
        first_log == first_log_fallback(c)
    IN  IF fb # NoBlock THEN c[fb + 1].ts \div DayLen
        ELSE IF first_log = <<>> THEN NoDate
        ELSE c[first_log[1].blockNumber + 1].ts \div DayLen

----------------------------------------------------------------------------
(* External flows of one block window *)

(* Every log to the wallet is a deposit, every log from it a withdrawal. *)
_deposits_withdrawals_for_day_all(c, start_block, end_block) ==
    LET logs_to == ausdc_get_logs_chunked(c, start_block, end_block,
                                          <<ANY, WALLET>>, FALSE, ATOKEN_CHUNK)
        logs_from == ausdc_get_logs_chunked(c, start_block, end_block,
                                            <<WALLET, ANY>>, FALSE, ATOKEN_CHUNK)
    IN  <<SumData(logs_to), SumData(logs_from)>>

_deposits_withdrawals_for_day(c, start_block, end_block) ==
    LET logs_to == ausdc_get_logs_chunked(c, start_block, end_block,
                                          <<ANY, WALLET>>, FALSE, ATOKEN_CHUNK)
        logs_from == ausdc_get_logs_chunked(c, start_block, end_block,
                                            <<WALLET, ANY>>, FALSE, ATOKEN_CHUNK)
        mints == SelectSeq(logs_to, LAMBDA l: l.from = ZERO /\ l.to = WALLET)
        burns == SelectSeq(logs_from, LAMBDA l: l.from = WALLET /\ l.to = ZERO)
    IN  <<SumData(mints), SumData(burns)>>

_sum_transfers(c, start_block, end_block) ==
    LET in_logs == steth_get_logs_chunked(c, start_block, end_block,
                                          <<ANY, WALLET>>, FALSE, STETH_CHUNK)
        out_logs == steth_get_logs_chunked(c, start_block, end_block,
                                           <<WALLET, ANY>>, FALSE, STETH_CHUNK)
    IN  <<SumData(in_logs), SumData(out_logs)>>

----------------------------------------------------------------------------
(* The UTC day window *)

DayStartTs(day) == day * DayLen

DayEndTs(day) == day * DayLen + (DayLen - 1)

DateOfTs(ts) == ts \div DayLen

(* end_dt < start_dt *)
Inverted(s, e) == e < s

NextDay_skip(day) == day + 2

NextDay(day) == day + 1

----------------------------------------------------------------------------
(* One daily record, in the integer smallest-unit domain *)

atoken_row(c, day, sb, eb) ==
    LET start_bal == _balance_of(c, sb)
        end_bal == _balance_of(c, eb)
        dw == _deposits_withdrawals_for_day(c, sb, eb)
        deposits_wei == dw[1]
        withdrawals_wei == dw[2]
        net_transfers_wei == withdrawals_wei - deposits_wei
        interest_wei == (end_bal - start_bal) + net_transfers_wei
    IN  [kind |-> "atoken", date |-> day, start_block |-> sb, end_block |-> eb,
         start_balance |-> start_bal, end_balance |-> end_bal,
         inflow |-> deposits_wei, outflow |-> withdrawals_wei,
         net_transfers |-> net_transfers_wei, yield |-> interest_wei]

(* The outflow is subtracted instead of added back. *)
steth_row_sign(c, day, sb, eb) ==
    LET start_bal == _balance_of(c, sb)
        end_bal == _balance_of(c, eb)
        io == _sum_transfers(c, sb, eb)
        in_wei == io[1]
        out_wei == io[2]
        net_wei == in_wei - out_wei
        rebase_wei == (end_bal - start_bal) - in_wei - out_wei
    IN  [kind |-> "steth", date |-> day, start_block |-> sb, end_block |-> eb,
         start_balance |-> start_bal, end_balance |-> end_bal,
         inflow |-> in_wei, outflow |-> out_wei,
         net_transfers |-> net_wei, yield |-> rebase_wei]

steth_row(c, day, sb, eb) ==
    LET start_bal == _balance_of(c, sb)
        end_bal == _balance_of(c, eb)
        io == _sum_transfers(c, sb, eb)
        in_wei == io[1]
        out_wei == io[2]
        net_wei == in_wei - out_wei
        rebase_wei == (end_bal - start_bal) - net_wei
    IN  [kind |-> "steth", date |-> day, start_block |-> sb, end_block |-> eb,
         start_balance |-> start_bal, end_balance |-> end_bal,
         inflow |-> in_wei, outflow |-> out_wei,
         net_transfers |-> net_wei, yield |-> rebase_wei]

ClampEnd_none(sb, eb) == eb

ClampEnd(sb, eb) == IF eb < sb THEN sb ELSE eb

(* The day's 23:59:59 is used whatever the head's timestamp is. *)
ClipEndTs_none(end_ts, head_ts) == end_ts

(* if end_ts > latest_ts: end_ts = latest_ts *)
ClipEndTs(end_ts, head_ts) == IF end_ts > head_ts THEN head_ts ELSE end_ts

----------------------------------------------------------------------------
(* The chain grows: the node appends a block whose timestamp is not below the
   head's.  A block holds Transfer logs of the token and the accrual the
   protocol credits to the wallet in it. *)

LogValues ==
    {[from |-> p[1], to |-> p[2], data |-> a] :
        p \in {<<ZERO, WALLET>>, <<WALLET, ZERO>>, <<PEER, WALLET>>,
               <<WALLET, PEER>>},
        a \in Amounts}

LogSeqs(held) ==
    UNION {[1..k -> LogValues] : k \in {n \in LogCounts : n + held \in LogCounts}}

RECURSIVE TotalLogs(_)
TotalLogs(c) == IF c = <<>> THEN 0 ELSE Len(Head(c).logs) + TotalLogs(Tail(c))

HeadTs(c) == BlockTs(c, _latest_block(c))

AppendBlock(ts, logs, accr, maxBlocks) ==
    LET c2 == Append(chain, [ts |-> ts, logs |-> logs, accr |-> accr])
    IN  /\ Len(chain) < maxBlocks
        /\ ts >= HeadTs(chain)
        /\ _balance_of(c2, _latest_block(c2)) >= 0
        /\ accr > 0 => _balance_of(chain, _latest_block(chain)) > 0
        /\ chain' = c2

AdvanceHead ==
    /\ pc \in {"idle", "day", "end"}
    /\ \E ts \in 0..MaxTs, accr \in Accruals :
         \E logs \in LogSeqs(TotalLogs(chain)) :
            AppendBlock(ts, logs, accr, MaxBlocks)
    /\ UNCHANGED <<pc, tracker, start_dt, end_dt, d, latest, latest_ts, start_blk, rows, res, aside>>

----------------------------------------------------------------------------
(* get_atoken_interest_range(wallet, token, start_iso, end_iso) *)

(* The records of an earlier call are kept. *)
NewRows_kept(old) == old

(* rows = [] *)
NewRows(old) == <<>>

AtokenRange(s, e) ==
    /\ tracker' = "atoken"
    /\ start_dt' = s
    /\ end_dt' = e
    /\ IF Inverted(s, e)
         THEN /\ pc' = "empty"
              /\ UNCHANGED <<d, latest, latest_ts>>
         ELSE /\ latest' = _latest_block(chain)
              /\ latest_ts' = BlockTs(chain, _latest_block(chain))
              /\ d' = s
              /\ pc' = "day"
    /\ rows' = NewRows(rows)
    /\ UNCHANGED <<chain, start_blk, res, aside>>

StartAtoken ==
    /\ pc = "idle"
    /\ \E s \in Days, e \in Days : AtokenRange(s, e)

(* get_steth_rebases_from_first_activity(wallet): the walk runs from the date
   of the first activity to today, the caller's clock, which is not behind the
   head block's date. *)
StethFrom(today) ==
    /\ today >= DateOfTs(HeadTs(chain))
    /\ LET first_block == _find_first_activity_block(chain)
       IN  /\ tracker' = "steth"
           /\ IF first_block = NoBlock
                THEN /\ pc' = "empty"
                     /\ UNCHANGED <<start_dt, end_dt, d, latest, latest_ts>>
                ELSE /\ start_dt' = DateOfTs(BlockTs(chain, first_block))
                     /\ end_dt' = today
                     /\ latest' = _latest_block(chain)
                     /\ latest_ts' = BlockTs(chain, _latest_block(chain))
                     /\ d' = DateOfTs(BlockTs(chain, first_block))
                     /\ pc' = "day"
    /\ rows' = NewRows(rows)
    /\ UNCHANGED <<chain, start_blk, res, aside>>

StartSteth ==
    /\ pc = "idle"
    /\ \E today \in Days : StethFrom(today)

(* The walk ends: the range is exhausted, or the day starts after the head. *)
LoopExit ==
    /\ pc = "day"
    /\ \/ d > end_dt
       \/ DayStartTs(d) > latest_ts
    /\ pc' = "done"
    /\ UNCHANGED <<chain, tracker, start_dt, end_dt, d, latest, latest_ts, start_blk, rows, res, aside>>

(* start_blk = _block_by_time(start_ts, "after") *)
ResolveStart ==
    /\ pc = "day"
    /\ d <= end_dt
    /\ DayStartTs(d) <= latest_ts
    /\ start_blk' = _block_by_time(tracker, chain, DayStartTs(d), "after")
    /\ pc' = "end"
    /\ UNCHANGED <<chain, tracker, start_dt, end_dt, d, latest, latest_ts, rows, res, aside>>

(* end_blk = _block_by_time(end_ts, "before"), the clamp, the two balances,
   the flows of the window and the record. *)
ReadDay ==
    /\ pc = "end"
    /\ LET end_ts == ClipEndTs(DayEndTs(d), latest_ts)
           end_blk == ClampEnd(start_blk, _block_by_time(tracker, chain, end_ts, "before"))
           row == IF tracker = "atoken"
                    THEN atoken_row(chain, d, start_blk, end_blk)
                    ELSE steth_row(chain, d, start_blk, end_blk)
       IN  rows' = Append(rows, row)
    /\ d' = NextDay(d)
    /\ pc' = "day"
    /\ UNCHANGED <<chain, tracker, start_dt, end_dt, latest, latest_ts, start_blk, res, aside>>

----------------------------------------------------------------------------

Genesis(ts) == <<[ts |-> ts, logs |-> <<>>, accr |-> 0]>>

NoRpc == [st |-> "idle"]

NoEntry == [st |-> "idle"]

NoPrev == [st |-> "none"]

(* st.session_state["steth_accum"] = pd.DataFrame(), likewise atoken_accum *)
NoAccum == [steth |-> <<>>, atoken |-> <<>>]

NoEx == [st |-> "idle"]

AsideIdle ==
    /\ rpc = NoRpc
    /\ entry = NoEntry
    /\ prev = NoPrev
    /\ accum = NoAccum
    /\ ex = NoEx

Init ==
    /\ chain = Genesis(0)
    /\ pc = "idle"
    /\ tracker = "none"
    /\ start_dt = 0
    /\ end_dt = 0
    /\ d = 0
    /\ latest = 0
    /\ latest_ts = 0
    /\ start_blk = 0
    /\ rows = <<>>
    /\ res = [st |-> "idle"]
    /\ AsideIdle

Next ==
    \/ AdvanceHead
    \/ StartAtoken
    \/ StartSteth
    \/ LoopExit
    \/ ResolveStart
    \/ ReadDay

Spec == Init /\ [][Next]_vars

----------------------------------------------------------------------------
(* The resolver on its own: _block_by_time(ts, mode) against a chain of bare
   blocks, for every target and both modes, in both trackers. *)

MineBlock ==
    /\ \E ts \in 0..MaxTs : AppendBlock(ts, <<>>, 0, MaxProbeBlocks)
    /\ UNCHANGED <<pc, tracker, start_dt, end_dt, d, latest, latest_ts, start_blk, rows, res, aside>>

Resolve ==
    /\ \E t \in {"atoken", "steth"}, ts \in 0..MaxTs, mode \in {"before", "after"} :
         res' = [st |-> "done", impl |-> t, ts |-> ts, mode |-> mode,
                 latest |-> _latest_block(chain),
                 block |-> _block_by_time(t, chain, ts, mode)]
    /\ UNCHANGED <<chain, pc, tracker, start_dt, end_dt, d, latest, latest_ts, start_blk, rows, aside>>

(* One target resolved in both modes against the same chain. *)
ResolveBoth ==
    /\ \E t \in {"atoken", "steth"}, ts \in 0..MaxTs :
         res' = [st |-> "pair", impl |-> t, ts |-> ts,
                 latest |-> _latest_block(chain),
                 before |-> _block_by_time(t, chain, ts, "before"),
                 after |-> _block_by_time(t, chain, ts, "after")]
    /\ UNCHANGED <<chain, pc, tracker, start_dt, end_dt, d, latest, latest_ts, start_blk, rows, aside>>

InitResolve ==
    /\ \E ts \in 0..MaxTs : chain = Genesis(ts)
    /\ pc = "idle"
    /\ tracker = "none"
    /\ start_dt = 0
    /\ end_dt = 0
    /\ d = 0
    /\ latest = 0
    /\ latest_ts = 0
    /\ start_blk = 0
    /\ rows = <<>>
    /\ res = [st |-> "idle"]
    /\ AsideIdle

NextResolve ==
    \/ MineBlock
    \/ Resolve
    \/ ResolveBoth

SpecResolve == InitResolve /\ [][NextResolve]_vars

----------------------------------------------------------------------------
(* _rpc(infura_url, method, params, tries=5): one JSON-RPC call with its retry
   loop, in both trackers.  Every pass of the loop posts one HTTP request and
   meets one response; sleeps are kept in microseconds. *)

WalkIdle ==
    /\ pc = "idle"
    /\ tracker = "none"
    /\ start_dt = 0
    /\ end_dt = 0
    /\ d = 0
    /\ latest = 0
    /\ latest_ts = 0
    /\ start_blk = 0
    /\ rows = <<>>

tries == 5

Methods == {"eth_call", "eth_getLogs"}

(* What one HTTP request can meet: a result, HTTP 429 with or without a
   Retry-After header (seconds, or an HTTP date), another HTTP error status,
   a JSON-RPC error payload, a network exception. *)
Responses ==
    {[kind |-> "ok", arg |-> r] : r \in {"0x0", "0x1"}}
    \cup {[kind |-> "429", arg |-> ra] : ra \in {"", "2", "Wed, 04 Nov 2026 00:00:00 GMT"}}
    \cup {[kind |-> "http_error", arg |-> "500"]}
    \cup {[kind |-> "rpc_error", arg |-> "limit exceeded"]}
    \cup {[kind |-> "exception", arg |-> "timed out"]}

BackoffStart(impl) == IF impl = "ausdc" THEN 700000 ELSE 600000

BackoffCap(impl) == IF impl = "ausdc" THEN 10000000 ELSE 8000000

(* backoff = min(backoff * 1.8, cap) *)
NextBackoff(impl, b) == Min((b * 18) \div 10, BackoffCap(impl))

(* float(ra): the seconds of a numeric Retry-After, in microseconds; an HTTP
   date does not parse. *)
IsFloat(ra) == ra \in {"2"}

FloatOf(ra) == CASE ra = "2" -> 2000000

(* One more pass than range(tries) makes. *)
LoopDone_extra(n) == n > tries

(* for _ in range(tries): the loop is over after tries passes. *)
LoopDone(n) == n >= tries

RpcCall ==
    /\ rpc.st # "loop"
    /\ \E impl \in {"ausdc", "steth"}, method \in Methods :
         rpc' = [st |-> "loop", impl |-> impl, method |-> method, requests |-> 0,
                 backoff |-> BackoffStart(impl), last_err |-> "None",
                 sleeps |-> <<>>, resps |-> <<>>, out |-> "None"]
    /\ UNCHANGED <<chain, walk, res, entry, prev, accum, ex>>

(* requests.post(...) meets resp. *)
Posted(resp) ==
    [rpc EXCEPT !.requests = @ + 1, !.resps = Append(@, resp)]

(* time.sleep(backoff); backoff = min(backoff * 1.8, cap) *)
Backed(r) ==
    [r EXCEPT !.sleeps = Append(@, r.backoff),
              !.backoff = NextBackoff(r.impl, r.backoff)]

RpcOk ==
    /\ rpc.st = "loop" /\ ~LoopDone(rpc.requests)
    /\ \E resp \in Responses :
        /\ resp.kind = "ok"
        /\ rpc' = [Posted(resp) EXCEPT !.st = "returned", !.out = resp.arg]
    /\ UNCHANGED <<chain, walk, res, entry, prev, accum, ex>>

(* HTTP 429.  ausdc.py sleeps Retry-After seconds when the header is there and
   the backoff otherwise, and leaves last_err alone; a header that float()
   rejects lands in except Exception.  steth.py has no 429 branch: the status
   raises in raise_for_status. *)
RpcRateLimited ==
    /\ rpc.st = "loop" /\ ~LoopDone(rpc.requests)
    /\ \E resp \in Responses :
        /\ resp.kind = "429"
        /\ LET r == Posted(resp)
           IN  rpc' = IF r.impl = "steth" THEN Backed(r)
                      ELSE IF resp.arg = "" THEN Backed(r)
                      ELSE IF IsFloat(resp.arg)
                        THEN [r EXCEPT !.sleeps = Append(@, FloatOf(resp.arg)),
                                       !.backoff = NextBackoff(r.impl, r.backoff)]
                      ELSE Backed([r EXCEPT !.last_err = "could not convert string to float"])
    /\ UNCHANGED <<chain, walk, res, entry, prev, accum, ex>>

RpcHttpError ==
    /\ rpc.st = "loop" /\ ~LoopDone(rpc.requests)
    /\ \E resp \in Responses :
        /\ resp.kind = "http_error"
        /\ LET r == Posted(resp)
           IN  rpc' = IF r.impl = "steth" THEN Backed(r)
                      ELSE Backed([r EXCEPT !.last_err = "HTTP 500"])
    /\ UNCHANGED <<chain, walk, res, entry, prev, accum, ex>>

RpcErrorPayload ==
    /\ rpc.st = "loop" /\ ~LoopDone(rpc.requests)
    /\ \E resp \in Responses :
        /\ resp.kind = "rpc_error"
        /\ LET r == Posted(resp)
           IN  rpc' = IF r.impl = "steth" THEN Backed(r)
                      ELSE Backed([r EXCEPT !.last_err = resp.arg])
    /\ UNCHANGED <<chain, walk, res, entry, prev, accum, ex>>

RpcException ==
    /\ rpc.st = "loop" /\ ~LoopDone(rpc.requests)
    /\ \E resp \in Responses :
        /\ resp.kind = "exception"
        /\ LET r == Posted(resp)
           IN  rpc' = IF r.impl = "steth" THEN Backed(r)
                      ELSE Backed([r EXCEPT !.last_err = resp.arg])
    /\ UNCHANGED <<chain, walk, res, entry, prev, accum, ex>>

(* raise RuntimeError(f"RPC failed: {method} ({last_err})") in ausdc.py,
   raise RuntimeError(f"RPC failed: {method}") in steth.py. *)
RpcExhausted ==
    /\ rpc.st = "loop" /\ LoopDone(rpc.requests)
    /\ rpc' = [rpc EXCEPT !.st = "raised",
                          !.out = [method |-> rpc.method,
                                   detail |-> IF rpc.impl = "ausdc"
                                                THEN rpc.last_err ELSE ""]]
    /\ UNCHANGED <<chain, walk, res, entry, prev, accum, ex>>

InitRpc ==
    /\ chain = Genesis(0)
    /\ WalkIdle
    /\ res = [st |-> "idle"]
    /\ rpc = NoRpc
    /\ entry = NoEntry
    /\ prev = NoPrev
    /\ accum = NoAccum
    /\ ex = NoEx

NextRpc ==
    \/ RpcCall
    \/ RpcOk
    \/ RpcRateLimited
    \/ RpcHttpError
    \/ RpcErrorPayload
    \/ RpcException
    \/ RpcExhausted

SpecRpc == InitRpc /\ [][NextRpc]_vars

----------------------------------------------------------------------------
(* The engine entry points up to their first RPC of the body: the endpoint
   check, the bytecode check where the function has one, the date check of
   the range functions.  Each RPC ends in a result or in _rpc's error. *)

EntryPoints ==
    {"get_atoken_interest_range", "get_underlying_flows_range",
     "get_first_activity_date_atoken", "get_steth_rebases_from_first_activity"}

AtokenEntryPoints == EntryPoints \ {"get_steth_rebases_from_first_activity"}

RangeEntryPoints == {"get_atoken_interest_range", "get_underlying_flows_range"}

(* The functions that call _assert_token_on_network. *)
CheckedEntryPoints == {"get_underlying_flows_range", "get_first_activity_date_atoken"}

UrlArgs == {"None", "", "  ", "https://rpc.example"}   \* the infura_url argument

EnvUrls == {"", "https://env.example"}                  \* os.getenv("INFURA_URL", "")

Codes == {"", "0x", "0x6080"}                          \* eth_getCode of the token

(* str.strip() is kept whole: whitespace is not taken off. *)
Strip_kept(u) == u

(* str.strip() *)
Strip(u) == IF u \in {"", "  "} THEN "" ELSE u

(* (infura_url or os.getenv("INFURA_URL", "")).strip() *)
ResolvedUrl(arg, env) == Strip(IF arg \in {"None", ""} THEN env ELSE arg)

EntryRaise(msg) == [entry EXCEPT !.st = "raised", !.pos = "end", !.out = msg]

EntryCall ==
    /\ entry.st # "run"
    /\ \E fn \in EntryPoints, arg \in UrlArgs, env \in EnvUrls, code \in Codes,
          s \in Days, e \in Days :
         entry' = [st |-> "run", pos |-> "config", fn |-> fn, infura_url |-> arg,
                   env |-> env, code |-> code, start_dt |-> s, end_dt |-> e,
                   rpcs |-> <<>>, out |-> "None"]
    /\ UNCHANGED <<chain, walk, res, rpc, prev, accum, ex>>

(* if not infura_url: raise RuntimeError("Missing INFURA_URL") *)
EntryConfig ==
    /\ entry.st = "run" /\ entry.pos = "config"
    /\ entry' =
         IF ResolvedUrl(entry.infura_url, entry.env) = ""
           THEN EntryRaise("Missing INFURA_URL")
         ELSE [entry EXCEPT !.pos =
                 IF entry.fn \in CheckedEntryPoints THEN "getcode"
                 ELSE IF entry.fn \in RangeEntryPoints THEN "dates"
                 ELSE "head"]
    /\ UNCHANGED <<chain, walk, res, rpc, prev, accum, ex>>

(* _assert_token_on_network: eth_getCode, then the test of the code. *)
EntryGetCode ==
    /\ entry.st = "run" /\ entry.pos = "getcode"
    /\ \E ok \in BOOLEAN :
         LET e1 == [entry EXCEPT !.rpcs = Append(@, "eth_getCode")]
         IN  entry' =
               IF ~ok THEN [e1 EXCEPT !.st = "raised", !.pos = "end", !.out = "RPC failed"]
               ELSE IF e1.code \in {"", "0x"}
                 THEN [e1 EXCEPT !.st = "raised", !.pos = "end", !.out = "has no bytecode"]
               ELSE [e1 EXCEPT !.pos = IF e1.fn \in RangeEntryPoints THEN "dates" ELSE "head"]
    /\ UNCHANGED <<chain, walk, res, rpc, prev, accum, ex>>

(* if end_dt < start_dt: return pd.DataFrame([]) *)
EntryDates ==
    /\ entry.st = "run" /\ entry.pos = "dates"
    /\ entry' =
         IF Inverted(entry.start_dt, entry.end_dt)
           THEN [entry EXCEPT !.st = "returned", !.pos = "end", !.out = "empty"]
         ELSE [entry EXCEPT !.pos = "head"]
    /\ UNCHANGED <<chain, walk, res, rpc, prev, accum, ex>>

(* latest = _latest_block(infura_url): the first RPC of the body; after it the
   function is in its walk or its search. *)
EntryHead ==
    /\ entry.st = "run" /\ entry.pos = "head"
    /\ \E ok \in BOOLEAN :
         LET e1 == [entry EXCEPT !.rpcs = Append(@, "eth_blockNumber")]
         IN  entry' =
               IF ~ok THEN [e1 EXCEPT !.st = "raised", !.pos = "end", !.out = "RPC failed"]
               ELSE [e1 EXCEPT !.st = "proceeds", !.pos = "end"]
    /\ UNCHANGED <<chain, walk, res, rpc, prev, accum, ex>>

InitEntry ==
    /\ chain = Genesis(0)
    /\ WalkIdle
    /\ res = [st |-> "idle"]
    /\ rpc = NoRpc
    /\ entry = NoEntry
    /\ prev = NoPrev
    /\ accum = NoAccum
    /\ ex = NoEx

NextEntry ==
    \/ EntryCall
    \/ EntryConfig
    \/ EntryGetCode
    \/ EntryDates
    \/ EntryHead

SpecEntry == InitEntry /\ [][NextEntry]_vars

----------------------------------------------------------------------------
(* get_atoken_interest_range over windows around the dashboard's cap of 180
   days, against a chain whose head lies in the day after the cap. *)

WINDOW_CAP == 180

StartAtokenLong ==
    /\ pc = "idle"
    /\ \E s \in {0, 1}, e \in {WINDOW_CAP - 1, WINDOW_CAP} : AtokenRange(s, e)

InitCap ==
    /\ chain = Append(Genesis(0), [ts |-> DayStartTs(WINDOW_CAP), logs |-> <<>>, accr |-> 0])
    /\ WalkIdle
    /\ res = [st |-> "idle"]
    /\ AsideIdle

NextCap ==
    \/ StartAtokenLong
    \/ LoopExit
    \/ ResolveStart
    \/ ReadDay

SpecCap == InitCap /\ [][NextCap]_vars

----------------------------------------------------------------------------
(* The first-activity locators against chains that also hold Transfer logs of
   the token between other accounts. *)

AllLogValues == LogValues \cup {[from |-> PEER, to |-> PEER, data |-> a] : a \in Amounts}

AllLogSeqs(held) ==
    UNION {[1..k -> AllLogValues] : k \in {n \in LogCounts : n + held \in LogCounts}}

MineAny ==
    /\ res.st = "idle"
    /\ \E ts \in 0..MaxTs, accr \in Accruals :
         \E logs \in AllLogSeqs(TotalLogs(chain)) :
            AppendBlock(ts, logs, accr, MaxBlocks)
    /\ UNCHANGED <<walk, res, aside>>

(* get_first_activity_date_atoken(wallet, token) after its endpoint check:
   the bytecode check, then the search. *)
LocateAtoken ==
    /\ \E code \in Codes :
         res' = IF code \in {"", "0x"}
                  THEN [st |-> "located", impl |-> "atoken", code |-> code,
                        out |-> "has no bytecode", found |-> NoDate,
                        fb |-> NoBlock, first_log |-> <<>>]
                  ELSE [st |-> "located", impl |-> "atoken", code |-> code,
                        out |-> "returned",
                        found |-> get_first_activity_date_atoken(chain),
                        fb |-> _find_first_nonzero_balance_block(chain),
                        first_log |-> IF _find_first_nonzero_balance_block(chain) # NoBlock
                                        THEN <<>> ELSE first_log_fallback(chain)]
    /\ UNCHANGED <<chain, walk, aside>>

(* _find_first_activity_block(wallet) *)
LocateSteth ==
    /\ res' = [st |-> "located", impl |-> "steth", code |-> "0x6080",
               out |-> "returned", found |-> _find_first_activity_block(chain)]
    /\ UNCHANGED <<chain, walk, aside>>

NextLocate ==
    \/ MineAny
    \/ LocateAtoken
    \/ LocateSteth

SpecLocate == Init /\ [][NextLocate]_vars

----------------------------------------------------------------------------
(* The locators against longer chains.  Both halve a block range, so the chain
   is one block longer than the walk's and a search has blocks it never
   probes; blocks are stamped 00:00:00 of a day and carry no accrual.  An
   ERC-20 transfer of nothing emits its Transfer log like any other. *)

MaxLocateBlocks == MaxBlocks + 1

ZeroValueLogs ==
    {[from |-> WALLET, to |-> PEER, data |-> 0], [from |-> PEER, to |-> WALLET, data |-> 0]}

MineSearched ==
    /\ res.st = "idle"
    /\ \E day \in Days, k \in {n \in LogCounts : n + TotalLogs(chain) \in LogCounts} :
         \E logs \in [1..k -> LogValues \cup ZeroValueLogs] :
            AppendBlock(DayStartTs(day), logs, 0, MaxLocateBlocks)
    /\ UNCHANGED <<walk, res, aside>>

NextSearch ==
    \/ MineSearched
    \/ LocateAtoken
    \/ LocateSteth

SpecSearch == Init /\ [][NextSearch]_vars

----------------------------------------------------------------------------
(* _get_logs_chunked pass by pass, with chunks smaller than the range.  The
   call is held in res: its arguments, the loop variable b, the fromBlock and
   toBlock of every eth_getLogs request made, and out. *)

(* The node appends a block with Transfer logs; timestamps play no part. *)
MineLogged ==
    /\ res.st = "idle"
    /\ \E logs \in LogSeqs(TotalLogs(chain)) :
          AppendBlock(HeadTs(chain), logs, 0, MaxLocateBlocks)
    /\ UNCHANGED <<walk, res, aside>>

ChunksCall ==
    /\ res.st = "idle"
    /\ \E impl \in {"ausdc", "steth"}, stop_at_first \in BOOLEAN, chunk_size \in {1, 2},
          start_block \in 0.._latest_block(chain), end_block \in 0.._latest_block(chain) :
          res' = [st |-> "chunks", impl |-> impl, start_block |-> start_block,
                  end_block |-> end_block, topics |-> <<ANY, WALLET>>,
                  stop_at_first |-> stop_at_first, chunk_size |-> chunk_size,
                  b |-> start_block, reqs |-> <<>>, out |-> <<>>]
    /\ UNCHANGED <<chain, walk, aside>>

(* The chunk reaches one block further. *)
ChunkEnd_wide(b, end_block, chunk_size) == Min(end_block, b + chunk_size)

(* e = min(end_block, b + chunk_size - 1) *)
ChunkEnd(b, end_block, chunk_size) == Min(end_block, b + chunk_size - 1)

(* One pass of `while b <= end_block`. *)
ChunkStep ==
    /\ res.st = "chunks" /\ res.b <= res.end_block
    /\ LET e == ChunkEnd(res.b, res.end_block, res.chunk_size)
           logs == eth_getLogs(chain, res.b, e, res.topics)
           r == [res EXCEPT !.reqs = Append(@, [fromBlock |-> res.b, toBlock |-> e])]
       IN  res' = IF logs # <<>> /\ res.stop_at_first
                    THEN [r EXCEPT !.st = "chunked", !.out = <<logs[1]>>]
                  ELSE [r EXCEPT !.out = @ \o logs, !.b = e + 1]
    /\ UNCHANGED <<chain, walk, aside>>

(* return out *)
ChunksReturn ==
    /\ res.st = "chunks" /\ res.b > res.end_block
    /\ res' = [res EXCEPT !.st = "chunked"]
    /\ UNCHANGED <<chain, walk, aside>>

NextChunks ==
    \/ MineLogged
    \/ ChunksCall
    \/ ChunkStep
    \/ ChunksReturn

SpecChunks == Init /\ [][NextChunks]_vars

----------------------------------------------------------------------------
(* The same call made twice against a chain that does not change in between:
   the caller keeps what the first call returned and calls again with the
   same arguments (for stETH the wallet alone; the clock may have moved). *)

MineIdle ==
    /\ pc = "idle"
    /\ \E ts \in 0..MaxTs, accr \in Accruals :
         \E logs \in LogSeqs(TotalLogs(chain)) :
            AppendBlock(ts, logs, accr, MaxBlocks)
    /\ UNCHANGED <<walk, res, aside>>

KeepFirst ==
    /\ pc \in {"done", "empty"}
    /\ prev.st = "none"
    /\ prev' = [st |-> "kept", rows |-> rows, pc |-> pc]
    /\ pc' = "again"
    /\ UNCHANGED <<chain, tracker, start_dt, end_dt, d, latest, latest_ts, start_blk, rows,
                   res, rpc, entry, accum, ex>>

CallAgain ==
    /\ pc = "again"
    /\ IF tracker = "atoken" THEN AtokenRange(start_dt, end_dt)
       ELSE \E today \in Days : StethFrom(today)

NextTwice ==
    \/ MineIdle
    \/ StartAtoken
    \/ StartSteth
    \/ LoopExit
    \/ ResolveStart
    \/ ReadDay
    \/ KeepFirst
    \/ CallAgain

SpecTwice == Init /\ [][NextTwice]_vars

----------------------------------------------------------------------------
(* The dashboard executors run_window_and_stream (stETH) and
   run_window_and_stream_atoken: one engine call per day of the window, each
   day's frame merged into the session's accumulator.  An engine call is one
   whole invocation against the chain as it is at the call, or an exception;
   _cached_range and _cached_atoken are taken at a cache miss.  The chain
   holds bare blocks. *)

SLICE_DAYS == 30

ATOKEN_ADDR == "aToken"

(* An end date that makes the window longer than the cap. *)
FarDay == WINDOW_CAP + Cardinality(Days)

DayRecord(t, c, day, head_ts) ==
    LET sb == _block_by_time(t, c, DayStartTs(day), "after")
        eb == ClampEnd(sb, _block_by_time(t, c, ClipEndTs(DayEndTs(day), head_ts), "before"))
    IN  IF t = "atoken" THEN atoken_row(c, day, sb, eb) ELSE steth_row(c, day, sb, eb)

(* The walk ends after its first record. *)
WalkRows_one(t, c, day, e, head_ts) ==
    IF day > e \/ DayStartTs(day) > head_ts THEN <<>>
    ELSE <<DayRecord(t, c, day, head_ts)>>

RECURSIVE WalkRows(_, _, _, _, _)
WalkRows(t, c, day, e, head_ts) ==
    IF day > e \/ DayStartTs(day) > head_ts THEN <<>>
    ELSE <<DayRecord(t, c, day, head_ts)>> \o WalkRows(t, c, NextDay(day), e, head_ts)

get_atoken_interest_range(c, s, e) ==
    IF Inverted(s, e) THEN <<>> ELSE WalkRows("atoken", c, s, e, HeadTs(c))

(* trackers.steth.get_steth_rebases_range(wallet, start_iso, end_iso): the
   range form of the stETH walk. *)
get_steth_rebases_range(c, s, e) ==
    IF Inverted(s, e) THEN <<>> ELSE WalkRows("steth", c, s, e, HeadTs(c))

EngineRange(which, c, s, e) ==
    IF which = "atoken" THEN get_atoken_interest_range(c, s, e)
    ELSE get_steth_rebases_range(c, s, e)

(* df_day["token_address"] = atoken_addr; stETH frames have no such column. *)
Tagged(which, df) ==
    [i \in 1..Len(df) |->
        df[i] @@ ("token_address" :> (IF which = "atoken" THEN ATOKEN_ADDR ELSE ""))]

Wallets == {WALLET, PEER}   \* what the wallet input can hold

(* The engine reads balanceOf(wallet) and the Transfer logs that carry the
   wallet in a topic: a call for wallet w sees the chain with w in the
   wallet's place.  The accrual of a block is the one credited to WALLET. *)
SwapAddr(a, w) == IF a = w THEN WALLET ELSE IF a = WALLET THEN w ELSE a

ChainFor(c, w) ==
    IF w = WALLET THEN c
    ELSE [b \in 1..Len(c) |->
            [ts |-> c[b].ts,
             logs |-> [i \in 1..Len(c[b].logs) |->
                         [from |-> SwapAddr(c[b].logs[i].from, w),
                          to |-> SwapAddr(c[b].logs[i].to, w),
                          data |-> c[b].logs[i].data]],
             accr |-> 0]]

AccumKey(r) == <<r.date, r.start_block, r.end_block, r.token_address>>

(* The accumulator is replaced by the new frame. *)
AccumConcat_overwrite(acc, df) == df

(* pd.concat([acc, df_day], ignore_index=True) *)
AccumConcat(acc, df) == acc \o df

(* drop_duplicates(subset=[date, start_block, end_block(, token_address)],
   keep="last") *)
RECURSIVE DropDuplicates(_)
DropDuplicates(sq) ==
    IF sq = <<>> THEN <<>>
    ELSE IF \E j \in 2..Len(sq) : AccumKey(sq[j]) = AccumKey(Head(sq))
      THEN DropDuplicates(Tail(sq))
    ELSE <<Head(sq)>> \o DropDuplicates(Tail(sq))

TokenRank(a) == IF a = "" THEN 0 ELSE IF a = ATOKEN_ADDR THEN 1 ELSE 2

SortsBefore(a, b) ==
    \/ TokenRank(a.token_address) < TokenRank(b.token_address)
    \/ /\ TokenRank(a.token_address) = TokenRank(b.token_address)
       /\ a.date < b.date

(* sort_values("date") / sort_values(["token_address", "date"]); rows that
   compare equal keep their order. *)
RECURSIVE SortValues(_)
SortValues(sq) ==
    IF sq = <<>> THEN <<>>
    ELSE LET rest == SortValues(SubSeq(sq, 1, Len(sq) - 1))
             r == sq[Len(sq)]
             n == Cardinality({i \in 1..Len(rest) : ~SortsBefore(r, rest[i])})
         IN  SubSeq(rest, 1, n) \o <<r>> \o SubSeq(rest, n + 1, Len(rest))

(* The frames are concatenated the other way round: of two rows with one key
   the older is kept. *)
Accumulate_first(acc, df) == SortValues(DropDuplicates(AccumConcat(df, acc)))

Accumulate(acc, df) == SortValues(DropDuplicates(AccumConcat(acc, df)))

MineStream ==
    /\ \E ts \in 0..MaxTs : AppendBlock(ts, <<>>, 0, MaxBlocks)
    /\ UNCHANGED <<walk, res, aside>>

(* "Clear accumulated results": the click reruns the script, and what the
   last run reported is off the page. *)
ClearAccum ==
    /\ ex.st # "loop"
    /\ accum[ex.tab] # <<>>
    /\ accum' = [accum EXCEPT ![ex.tab] = <<>>]
    /\ ex' = [st |-> "idle", tab |-> ex.tab, wallet |-> ex.wallet]
    /\ UNCHANGED <<chain, walk, res, rpc, entry, prev>>

(* "Compute this range" in the open tab: the checks on total_days, then the
   loop begins.  The aToken executor always streams; the stETH one has the
   stream_rows toggle.  held, tried and fetched record what the accumulator
   held at the start, the days the engine was called for and the frames it
   returned, head the chain's head block when the run began. *)
RunWindow ==
    /\ ex.st # "loop"
    /\ \E stream \in BOOLEAN, s \in Days, e \in Days \cup {FarDay} :
        /\ ex.tab = "atoken" => stream
        /\ LET total_days == e - s + 1
               run == [st |-> "loop", tab |-> ex.tab, wallet |-> ex.wallet, which |-> ex.tab,
                       stream |-> stream, start_dt |-> s, end_dt |-> e, cur |-> s,
                       held |-> accum[ex.tab], tried |-> <<>>, fetched |-> <<>>,
                       head |-> _latest_block(chain),
                       msg |-> [text |-> "Starting", day |-> s, to |-> s]]
           IN  ex' = IF total_days <= 0
                       THEN [run EXCEPT !.st = "over", !.held = <<>>, !.head = 0,
                                        !.msg.text = "Empty window"]
                     ELSE IF total_days > WINDOW_CAP
                       THEN [run EXCEPT !.st = "over", !.held = <<>>, !.head = 0,
                                        !.msg.text = "Window too large"]
                     ELSE run
    /\ UNCHANGED <<chain, walk, res, rpc, entry, prev, accum>>

(* One pass of `while cur <= end_dt` in the streaming branch. *)
StreamDay ==
    /\ ex.st = "loop" /\ ex.stream /\ ex.cur <= ex.end_dt
    /\ \E ok \in BOOLEAN :
         LET df_day == Tagged(ex.which, EngineRange(ex.which, ChainFor(chain, ex.wallet),
                                                  ex.cur, ex.cur))
             e1 == [ex EXCEPT !.tried = Append(@, ex.cur)]
         IN  IF ~ok
               THEN /\ ex' = [e1 EXCEPT !.st = "failed",
                                        !.msg = [text |-> "Failed on", day |-> ex.cur,
                                                 to |-> ex.cur]]
                    /\ UNCHANGED accum
               ELSE /\ ex' = [e1 EXCEPT !.cur = NextDay(ex.cur),
                                        !.fetched = @ \o df_day]
                    /\ accum' = IF df_day # <<>>
                                  THEN [accum EXCEPT ![ex.which] = Accumulate(@, df_day)]
                                  ELSE accum
    /\ UNCHANGED <<chain, walk, res, rpc, entry, prev>>

(* One pass of `while cur_start <= end_dt` in the slice branch. *)
SliceStep ==
    /\ ex.st = "loop" /\ ~ex.stream /\ ex.cur <= ex.end_dt
    /\ \E ok \in BOOLEAN :
         LET cur_end == Min(ex.cur + SLICE_DAYS - 1, ex.end_dt)
             df_slice == Tagged(ex.which, EngineRange(ex.which, ChainFor(chain, ex.wallet),
                                                    ex.cur, cur_end))
             e1 == [ex EXCEPT !.tried = Append(@, ex.cur)]
         IN  IF ~ok
               THEN /\ ex' = [e1 EXCEPT !.st = "failed",
                                        !.msg = [text |-> "Failed on slice", day |-> ex.cur,
                                                 to |-> cur_end]]
                    /\ UNCHANGED accum
               ELSE /\ ex' = [e1 EXCEPT !.cur = cur_end + 1,
                                        !.fetched = @ \o df_slice]
                    /\ accum' = IF df_slice # <<>>
                                  THEN [accum EXCEPT ![ex.which] = Accumulate(@, df_slice)]
                                  ELSE accum
    /\ UNCHANGED <<chain, walk, res, rpc, entry, prev>>

(* The loop is over: "Added window". *)
WindowDone ==
    /\ ex.st = "loop" /\ ex.cur > ex.end_dt
    /\ ex' = [ex EXCEPT !.st = "over", !.held = <<>>, !.tried = <<>>, !.fetched = <<>>,
                        !.head = 0,
                        !.msg = [text |-> "Added window", day |-> ex.start_dt,
                                 to |-> ex.end_dt]]
    /\ UNCHANGED <<chain, walk, res, rpc, entry, prev, accum>>

NextStream ==
    \/ MineStream
    \/ ClearAccum
    \/ RunWindow
    \/ StreamDay
    \/ SliceStep
    \/ WindowDone

(* The session works in one of the two tabs. *)
InitStream ==
    /\ chain = Genesis(0)
    /\ WalkIdle
    /\ res = [st |-> "idle"]
    /\ rpc = NoRpc
    /\ entry = NoEntry
    /\ prev = NoPrev
    /\ accum = NoAccum
    /\ \E tab \in {"steth", "atoken"} : ex = [st |-> "idle", tab |-> tab, wallet |-> WALLET]

SpecStream == InitStream /\ [][NextStream]_vars

----------------------------------------------------------------------------
(* The dashboard with its wallet input: the text typed there is read by every
   engine call of a run, and typing another address reruns the script.  The
   first block of the chain holds a mint to WALLET, so the two wallets'
   records differ. *)

GenesisMint ==
    <<[ts |-> 0, logs |-> <<[from |-> ZERO, to |-> WALLET, data |-> 1]>>, accr |-> 0]>>

(* st.text_input("Wallet address", key="wallet_input") gets another value. *)
ChangeWallet ==
    /\ ex.st # "loop"
    /\ \E w \in Wallets \ {ex.wallet} :
          ex' = [st |-> "idle", tab |-> ex.tab, wallet |-> w]
    /\ UNCHANGED <<chain, walk, res, rpc, entry, prev, accum>>

(* Between two runs the node appends a block stamped 00:00:00 of some day. *)
MineDayStart ==
    /\ ex.st # "loop"
    /\ \E day \in Days : AppendBlock(DayStartTs(day), <<>>, 0, MaxBlocks)
    /\ UNCHANGED <<walk, res, aside>>

NextWallet ==
    \/ MineDayStart
    \/ ChangeWallet
    \/ ClearAccum
    \/ RunWindow
    \/ StreamDay
    \/ SliceStep
    \/ WindowDone

InitWallet ==
    /\ chain = GenesisMint
    /\ WalkIdle
    /\ res = [st |-> "idle"]
    /\ rpc = NoRpc
    /\ entry = NoEntry
    /\ prev = NoPrev
    /\ accum = NoAccum
    /\ \E tab \in {"steth", "atoken"} : ex = [st |-> "idle", tab |-> tab, wallet |-> WALLET]

SpecWallet == InitWallet /\ [][NextWallet]_vars

----------------------------------------------------------------------------
(* "Compute next window" in either tab: the window's start is read from the
   tab's accumulator, its end is 179 days later or yesterday, and the tab's
   executor runs over it.  The click is one rerun of the script, taken here
   as one step against the chain as it is at the click.  The Aave tab has the
   aToken input, whose address tags the rows of a run.  The chain holds bare
   blocks, so the records of two aTokens differ in their tag only. *)

NEXT_SPAN == 179

ATOKEN_ALT == "aTokenAlt"   \* another entry of "My tokens"

(* The values of atoken_addr; the stETH tab has no such input. *)
TokensOf(tab) == IF tab = "atoken" THEN {ATOKEN_ADDR, ATOKEN_ALT} ELSE {""}

(* df_day["token_address"] = atoken_addr *)
TagToken(addr, df) == [i \in 1..Len(df) |-> df[i] @@ ("token_address" :> addr)]

(* accum["date"].max(): the dates are ISO strings, whose greatest is the
   latest. *)
MaxDate(acc) ==
    CHOOSE m \in {acc[i].date : i \in 1..Len(acc)} : \A i \in 1..Len(acc) : acc[i].date <= m

(* day_after_last_accum and day_after_last_accum_any: the same body over the
   tab's accumulator.  Every date of the accumulator was written by the
   engine, so strptime does not raise. *)
day_after_last_accum(acc, first_activity, yday) ==
    IF acc = <<>>
      THEN IF first_activity # NoDate THEN first_activity ELSE yday - NEXT_SPAN
    ELSE Min(MaxDate(acc) + 1, yday)

(* The frame of the k-th pass of the executor's loop, from 0: the engine is
   called for cur..cur_end and the frame is tagged.  step is 1 when rows are
   streamed and SLICE_DAYS otherwise. *)
LoopFrame(w, k) ==
    LET cur == w.s + k * w.step
        cur_end == Min(cur + w.step - 1, w.e)
    IN  TagToken(w.addr, EngineRange(w.which, w.c, cur, cur_end))

(* The frames of the passes ks are merged into the accumulator, in the order
   of the passes. *)
RECURSIVE MergePasses(_, _, _)
MergePasses(acc, w, ks) ==
    IF ks = {} THEN acc
    ELSE LET k == CHOOSE x \in ks : \A y \in ks : x <= y
         IN  MergePasses(Accumulate(acc, LoopFrame(w, k)), w, ks \ {k})

(* The executor's loop over from_dt..to_dt: cur runs from from_dt in steps
   until it is past to_dt, and a pass whose frame is empty merges nothing.
   The engine call whose days hold fail raises, and the loop is left with
   what the passes before it merged. *)
RunLoop(acc, which, addr, c, from_dt, to_dt, step, fail) ==
    LET window == [which |-> which, addr |-> addr, c |-> c, s |-> from_dt, e |-> to_dt,
                   step |-> step]
        last == IF fail \in from_dt..to_dt THEN (fail - from_dt) \div step - 1
                ELSE (to_dt - from_dt) \div step
    IN  MergePasses(acc, window, {k \in 0..last : LoopFrame(window, k) # <<>>})

(* if run_next: s, e are computed and the executor is run.  start_dt, end_dt
   and held record the window and what the accumulator held at the click,
   clean that no run of the session has failed. *)
RunNext ==
    /\ \E stream \in BOOLEAN, fail \in {NoDate} \cup Days :
        /\ ex.tab = "atoken" => stream
        /\ LET s == day_after_last_accum(accum[ex.tab], ex.first_activity, ex.yday)
               e == Min(s + NEXT_SPAN, ex.yday)
               total_days == e - s + 1
               ran == [ex EXCEPT !.start_dt = s, !.end_dt = e, !.held = accum[ex.tab]]
           IN  IF total_days <= 0
                 THEN /\ ex' = [ran EXCEPT !.st = "empty"]
                      /\ UNCHANGED accum
               ELSE IF total_days > WINDOW_CAP
                 THEN /\ ex' = [ran EXCEPT !.st = "too large"]
                      /\ UNCHANGED accum
               ELSE /\ ex' = [ran EXCEPT !.st = IF fail \in s..e THEN "failed" ELSE "over",
                                          !.clean = @ /\ fail \notin s..e]
                    /\ accum' = [accum EXCEPT ![ex.tab] =
                                    RunLoop(@, ex.tab, ex.token, chain, s, e,
                                            IF stream THEN 1 ELSE SLICE_DAYS, fail)]
    /\ UNCHANGED <<chain, walk, res, rpc, entry, prev>>

(* Another entry of "My tokens" is made the active one: atoken_addr gets its
   address, the accumulator and atoken_first_activity stay. *)
ChangeToken ==
    /\ \E a \in TokensOf(ex.tab) \ {ex.token} :
          ex' = [ex EXCEPT !.st = "idle", !.token = a, !.start_dt = NoDate,
                           !.end_dt = NoDate, !.held = <<>>]
    /\ UNCHANGED <<chain, walk, res, rpc, entry, prev, accum>>

NextNext ==
    \/ MineStream
    \/ ChangeToken
    \/ RunNext

(* The session is in one of the tabs, with an empty accumulator.  yday is the
   day before date.today(); the first-activity field holds None or the date
   the finder gave.  The chain begins at day 0, so a session without a first
   activity has a clock at least 179 days later. *)
InitNext ==
    /\ chain = Genesis(0)
    /\ WalkIdle
    /\ res = [st |-> "idle"]
    /\ rpc = NoRpc
    /\ entry = NoEntry
    /\ prev = NoPrev
    /\ accum = NoAccum
    /\ \E tab \in {"steth", "atoken"}, yday \in (Days \ {0}) \cup {FarDay},
          fa \in {NoDate} \cup Days :
        /\ fa = NoDate => yday >= NEXT_SPAN
        /\ ex = [st |-> "idle", tab |-> tab, wallet |-> WALLET,
                 token |-> IF tab = "atoken" THEN ATOKEN_ADDR ELSE "",
                 yday |-> yday, first_activity |-> fa,
                 start_dt |-> NoDate, end_dt |-> NoDate, held |-> <<>>, clean |-> TRUE]

SpecNext == InitNext /\ [][NextNext]_vars

----------------------------------------------------------------------------
(* Properties *)

RowIdx == 1..Len(rows)

RangeLen == end_dt - start_dt + 1

DatesFromStart == \A i \in RowIdx : rows[i].date = start_dt + (i - 1)

(* C1, as stated: a finished walk over start_dt..end_dt holds one record per
   date of the range, whatever the head timestamp is. *)
C1_OneRecordPerDate ==
    (pc = "done" /\ start_dt <= end_dt) =>
        (Len(rows) = RangeLen /\ DatesFromStart)

(* C1, amended: a finished walk holds one record for each date of the range
   whose 00:00:00 timestamp is not after the head timestamp read at the start
   of the invocation, all RangeLen of them when the end date has begun at the
   head; the dates are contiguous and increasing from start_dt. *)
C1_RecordsUpToHead ==
    (pc = "done" /\ start_dt <= end_dt) =>
        /\ Len(rows) = Cardinality({x \in start_dt..end_dt : DayStartTs(x) <= latest_ts})
        /\ DayStartTs(end_dt) <= latest_ts => Len(rows) = RangeLen
        /\ DatesFromStart

C1_Witness ==
    /\ pc = "done"
    /\ Len(rows) >= 2
    /\ Len(rows) < RangeLen

RECURSIVE FlowOfLogs(_, _, _)
FlowOfLogs(ls, frm, to) ==
    IF ls = <<>> THEN 0
    ELSE (IF (frm = ANY \/ Head(ls).from = frm) /\ (to = ANY \/ Head(ls).to = to)
            THEN Head(ls).data ELSE 0)
         + FlowOfLogs(Tail(ls), frm, to)

RECURSIVE FlowOfBlocks(_, _, _, _)
FlowOfBlocks(sb, eb, frm, to) ==
    IF sb > eb THEN 0
    ELSE FlowOfLogs(chain[eb + 1].logs, frm, to) + FlowOfBlocks(sb, eb - 1, frm, to)

(* The external flows of a window: mints and burns for the aToken, every
   transfer to and from the wallet for stETH. *)
WindowInflow(r) ==
    FlowOfBlocks(r.start_block, r.end_block,
                 IF r.kind = "atoken" THEN ZERO ELSE ANY, WALLET)

WindowOutflow(r) ==
    FlowOfBlocks(r.start_block, r.end_block, WALLET,
                 IF r.kind = "atoken" THEN ZERO ELSE ANY)

(* C2: in every record, yield = (end_balance - start_balance) - inflow + outflow
   in smallest units, inflow and outflow being the sums of the external-flow
   logs of the record's block window. *)
C2_YieldFormula ==
    \A i \in RowIdx :
        /\ rows[i].yield = (rows[i].end_balance - rows[i].start_balance)
                           - rows[i].inflow + rows[i].outflow
        /\ rows[i].inflow = WindowInflow(rows[i])
        /\ rows[i].outflow = WindowOutflow(rows[i])

C2_Witness ==
    \E i \in RowIdx :
        /\ rows[i].kind = "steth"
        /\ rows[i].inflow > 0
        /\ rows[i].outflow > 0
        /\ rows[i].yield > 0

(* C3: in every record of either tracker, net_transfers = outflow - inflow. *)
C3_NetTransfersSign ==
    \A i \in RowIdx : rows[i].net_transfers = rows[i].outflow - rows[i].inflow

ZeroAccrual == \A b \in 1..Len(chain) : chain[b].accr = 0

MintsAndBurnsOnly ==
    \A b \in 1..Len(chain) : \A k \in 1..Len(chain[b].logs) :
        ZERO \in {chain[b].logs[k].from, chain[b].logs[k].to}

(* C4: when the wallet's balance changes through logged events alone (the
   protocol accrues nothing), every record has yield 0, wherever in the day
   the event falls.  Stated for histories of mints and burns, which both
   trackers read as external flows. *)
C4_YieldIsAccrualOnly ==
    (ZeroAccrual /\ MintsAndBurnsOnly) => \A i \in RowIdx : rows[i].yield = 0

(* C5: every record has start_block <= end_block, for days that hold no block
   and when the head advances during the invocation too. *)
C5_StartNotAfterEnd ==
    \A i \in RowIdx : rows[i].start_block <= rows[i].end_block

DayHasBlock(day) == \E b \in 0.._latest_block(chain) : DateOfTs(BlockTs(chain, b)) = day

C5_Witness ==
    /\ \E i \in RowIdx : ~DayHasBlock(rows[i].date) /\ rows[i].start_block > 0
    /\ \E i \in RowIdx : rows[i].end_block > latest

(* C6: records of adjacent days of one walk share their boundary block:
   record[i].end_block = record[i+1].start_block. *)
C6_Continuity ==
    \A i \in RowIdx : i < Len(rows) => rows[i].end_block = rows[i + 1].start_block

(* C7: the block windows of records of two different dates never overlap, a
   window collapsed to one block included. *)
C7_NoOverlap ==
    \A i, j \in RowIdx :
        rows[i].date # rows[j].date =>
            \/ rows[i].end_block < rows[j].start_block
            \/ rows[j].end_block < rows[i].start_block

Probed == res.st = "done"

(* C8: for a target at or after block 0's timestamp, mode 'before' returns the
   greatest block whose timestamp is <= the target. *)
C8_BeforeIsGreatest ==
    (Probed /\ res.mode = "before" /\ res.ts >= BlockTs(chain, 0)) =>
        /\ res.block \in 0..res.latest
        /\ BlockTs(chain, res.block) <= res.ts
        /\ \A b \in 0..res.latest : BlockTs(chain, b) <= res.ts => b <= res.block

C8_Witness ==
    /\ Probed /\ res.mode = "before" /\ res.impl = "atoken"
    /\ res.block > 0 /\ res.block < res.latest
    /\ BlockTs(chain, res.block - 1) = res.ts

(* C9: for a target at or before the head's timestamp, mode 'after' returns
   the least block whose timestamp is >= the target. *)
C9_AfterIsLeast ==
    (Probed /\ res.mode = "after" /\ res.ts <= BlockTs(chain, res.latest)) =>
        /\ res.block \in 0..res.latest
        /\ BlockTs(chain, res.block) >= res.ts
        /\ \A b \in 0..res.latest : BlockTs(chain, b) >= res.ts => b >= res.block

C9_Witness ==
    /\ Probed /\ res.mode = "after" /\ res.impl = "steth"
    /\ res.block > 0 /\ res.block < res.latest
    /\ BlockTs(chain, res.block + 1) = res.ts

(* C10: when no block satisfies the bound the resolver answers the nearest
   boundary: the latest block for 'after' a target past the head, block 0 for
   'before' a target ahead of block 0. *)
C10_ClampsToNearest ==
    Probed =>
        /\ (res.mode = "after" /\ res.ts > BlockTs(chain, res.latest))
              => res.block = res.latest
        /\ (res.mode = "before" /\ res.ts < BlockTs(chain, 0))
              => res.block = 0

Paired == res.st = "pair"

BothBoundsExist ==
    /\ BlockTs(chain, 0) <= res.ts
    /\ res.ts <= BlockTs(chain, res.latest)

(* The blocks the resolver saw that carry exactly timestamp ts. *)
BlocksAt(ts) == {b \in 0..res.latest : BlockTs(chain, b) = ts}

(* C11, as stated: for a target between block 0's and the head's timestamp,
   on a chain whose timestamps never decrease (consecutive blocks may share
   one), the answer for 'after' is never smaller than the answer for
   'before'. *)
C11_AfterNotBelowBefore ==
    (Paired /\ BothBoundsExist) => res.after >= res.before

(* C11, amended: the answer for 'after' is never smaller than the answer for
   'before' when at most one block carries exactly the target timestamp; when
   several consecutive blocks carry it, 'after' answers the first of them and
   'before' the last. *)
C11_AfterNotBelowBeforeUnlessTied ==
    (Paired /\ BothBoundsExist) =>
        /\ Cardinality(BlocksAt(res.ts)) <= 1 => res.after >= res.before
        /\ Cardinality(BlocksAt(res.ts)) > 1 =>
              /\ res.after < res.before
              /\ BlocksAt(res.ts) = res.after..res.before

C11_Witness ==
    /\ Paired /\ BothBoundsExist
    /\ BlocksAt(res.ts) = {}
    /\ res.after = res.before + 1
    /\ res.before > 0
    /\ \E b \in 1..res.latest : BlockTs(chain, b) = BlockTs(chain, b - 1)

RpcFailed(resp) == resp.kind # "ok"

RpcKinds(n) == {rpc.resps[i].kind : i \in 1..n}

(* C16: one _rpc call posts at most tries = 5 HTTP requests whatever responses
   it meets; it returns the result of the first successful response and posts
   nothing after it; it raises only after 5 failed attempts, and 5 failed
   attempts never end in a return. *)
C16_AtMostTriesRequests ==
    rpc.st # "idle" =>
        /\ rpc.requests <= tries
        /\ rpc.requests = Len(rpc.resps)
        /\ rpc.st = "loop" => \A i \in 1..Len(rpc.resps) : RpcFailed(rpc.resps[i])
        /\ rpc.st = "returned" =>
              /\ rpc.requests >= 1
              /\ ~RpcFailed(rpc.resps[rpc.requests])
              /\ rpc.out = rpc.resps[rpc.requests].arg
              /\ \A i \in 1..(rpc.requests - 1) : RpcFailed(rpc.resps[i])
        /\ rpc.st = "raised" =>
              /\ rpc.requests = tries
              /\ \A i \in 1..tries : RpcFailed(rpc.resps[i])

C16_Witness ==
    /\ rpc.st = "returned"
    /\ rpc.requests = tries
    /\ RpcKinds(tries - 1) = {"429", "http_error", "rpc_error", "exception"}

(* What the last failed attempt met, as the error text names it. *)
ErrorOf(resp) ==
    CASE resp.kind = "429" -> "HTTP 429"
      [] resp.kind = "http_error" -> "HTTP 500"
      [] OTHER -> resp.arg

(* C17: the error _rpc raises when the retries are used up names the method
   and the error of the last failed attempt, whatever that failure was, in
   both trackers. *)
C17_CarriesLastError ==
    rpc.st = "raised" =>
        /\ rpc.out.method = rpc.method
        /\ rpc.out.detail = ErrorOf(rpc.resps[tries])

EntryOver == entry.st \in {"returned", "raised", "proceeds"}

(* The endpoint the call is made with, the argument or else INFURA_URL, is
   empty or whitespace. *)
EndpointBlank ==
    LET given == IF entry.infura_url \in {"None", ""} THEN entry.env ELSE entry.infura_url
    IN  given \in {"", "  "}

InvertedRangeCall ==
    /\ EntryOver
    /\ entry.fn \in RangeEntryPoints
    /\ entry.end_dt < entry.start_dt

(* C12: a range function called with an end date before the start date
   returns an empty sequence and does not raise (the endpoint being
   configured and the token deployed on its network). *)
C12_InvertedRangeEmpty ==
    (InvertedRangeCall /\ ~EndpointBlank /\ entry.code \notin {"", "0x"}) =>
        (entry.st = "returned" /\ entry.out = "empty")

(* C14: when eth_getCode answers empty bytecode for the token, the aToken
   range and first-activity functions fail with the no-bytecode error, and
   eth_getCode is their first and only RPC (no RPC call failing, the endpoint
   configured, the range not inverted). *)
C14_BytecodeCheckedFirst ==
    (/\ EntryOver
     /\ entry.fn \in AtokenEntryPoints
     /\ ~EndpointBlank
     /\ entry.code \in {"", "0x"}
     /\ entry.out # "RPC failed"
     /\ entry.end_dt >= entry.start_dt) =>
        /\ entry.st = "raised" /\ entry.out = "has no bytecode"
        /\ entry.rpcs = <<"eth_getCode">>

(* C15: when the resolved endpoint (the argument, else INFURA_URL, stripped)
   is blank, every entry point raises "Missing INFURA_URL" at its first step
   and issues no RPC. *)
C15_BlankEndpointRaises ==
    (entry.st # "idle" /\ EndpointBlank) =>
        /\ entry.rpcs = <<>>
        /\ entry.st = "run" => entry.pos = "config"
        /\ entry.st # "run" => (entry.st = "raised" /\ entry.out = "Missing INFURA_URL")

C15_Witness ==
    /\ entry.st = "raised" /\ entry.out = "Missing INFURA_URL"
    /\ entry.fn = "get_steth_rebases_from_first_activity"
    /\ entry.infura_url = "  " /\ entry.env # ""

(* C13: an invocation of the range function whose span exceeds 180 days is
   rejected: it resolves no day's blocks and produces no record. *)
C13_SpanCapRejects ==
    (tracker = "atoken" /\ RangeLen > WINDOW_CAP) =>
        (pc \notin {"end", "done"} /\ rows = <<>>)

Located == res.st = "located"

WalletLogs ==
    {<<b, k>> \in (1..Len(chain)) \X (1..Cardinality(LogCounts)) :
        /\ k <= Len(chain[b].logs)
        /\ WALLET \in {chain[b].logs[k].from, chain[b].logs[k].to}}

NeverHeld == \A b \in 0.._latest_block(chain) : _balance_of(chain, b) = 0

(* C18: for a wallet that never had a non-zero balance and appears in no
   Transfer log of the token (the token being deployed on the endpoint's
   network), both locators return absent: no error, and neither block 0 nor
   block 0's date. *)
C18_NoActivityIsAbsent ==
    (Located /\ NeverHeld /\ WalletLogs = {} /\ res.code \notin {"", "0x"}) =>
        /\ res.out = "returned"
        /\ res.found = (IF res.impl = "atoken" THEN NoDate ELSE NoBlock)
        /\ res.found # 0

C18_Witness ==
    /\ Located /\ res.impl = "atoken" /\ res.out = "returned"
    /\ NeverHeld /\ WalletLogs = {}
    /\ _latest_block(chain) = 2
    /\ TotalLogs(chain) = 2

(* C19: of two calls with identical arguments against an unchanged chain, the
   second returns the records the first returned. *)
C19_SameRecordsTwice ==
    (prev.st = "kept" /\ pc \in {"done", "empty"}) =>
        (rows = prev.rows /\ pc = prev.pc)

C19_Witness ==
    /\ prev.st = "kept" /\ pc = "done"
    /\ Len(rows) >= 2
    /\ \E i \in RowIdx : rows[i].inflow > 0 /\ rows[i].yield # 0

InAccum(r) == \E i \in 1..Len(accum[ex.which]) : accum[ex.which][i] = r

(* C20: when day k of a streamed window fails, the days attempted are the
   window's days up to k and no later one, the error names day k, and the
   accumulator holds every record fetched for the days before k and every
   record it held when the run began. *)
C20_FailureKeepsCompletedDays ==
    (ex.st = "failed" /\ ex.stream) =>
        /\ ex.msg.text = "Failed on"
        /\ ex.msg.day \in ex.start_dt..ex.end_dt
        /\ ex.tried = [i \in 1..(ex.msg.day - ex.start_dt + 1) |-> ex.start_dt + i - 1]
        /\ \A i \in 1..Len(ex.fetched) :
              /\ ex.fetched[i].date < ex.msg.day
              /\ InAccum(ex.fetched[i])
        /\ \A i \in 1..Len(ex.held) : InAccum(ex.held[i])

C20_Witness ==
    /\ ex.st = "failed" /\ ex.stream
    /\ ex.msg.day > ex.start_dt
    /\ ex.fetched # <<>>
    /\ \E i \in 1..Len(ex.held) :
          \A j \in 1..Len(ex.fetched) : ex.held[i].date # ex.fetched[j].date

----------------------------------------------------------------------------
(* The accumulated result set *)

Acc == accum[ex.tab]

(* What has been written to the accumulator, oldest first, while a run is on
   or has just failed: the rows it held when the run began, then the frames
   the engine returned. *)
RunOn == ex.st \in {"loop", "failed"}

Written == ex.held \o ex.fetched

KeysOf(sq) == {AccumKey(sq[i]) : i \in 1..Len(sq)}

LastWritten(k) ==
    LET i == CHOOSE n \in 1..Len(Written) :
                /\ AccumKey(Written[n]) = k
                /\ \A m \in (n + 1)..Len(Written) : AccumKey(Written[m]) # k
    IN  Written[i]

(* C21: the accumulator never holds two rows with the same key (date,
   start_block, end_block and, for aTokens, token_address); its rows are in
   order of date (of token address, then date, for aTokens); and for every
   key written the row it holds is the one written last. *)
C21_KeyedLastWinsSorted ==
    /\ \A i, j \in 1..Len(Acc) :
          i < j =>
            /\ AccumKey(Acc[i]) # AccumKey(Acc[j])
            /\ TokenRank(Acc[i].token_address) <= TokenRank(Acc[j].token_address)
            /\ Acc[i].token_address = Acc[j].token_address => Acc[i].date <= Acc[j].date
    /\ RunOn =>
          /\ KeysOf(Acc) = KeysOf(Written)
          /\ \A i \in 1..Len(Acc) : Acc[i] = LastWritten(AccumKey(Acc[i]))

(* A run has written, for a key the accumulator already held, a row that
   differs from the one held. *)
C21_Witness ==
    /\ RunOn
    /\ Len(Acc) >= 2
    /\ \E i \in 1..Len(ex.held), j \in 1..Len(ex.fetched) :
          /\ AccumKey(ex.held[i]) = AccumKey(ex.fetched[j])
          /\ ex.held[i] # ex.fetched[j]

----------------------------------------------------------------------------
(* The waits of one _rpc call *)

(* The backoff in force at pass i: the base, times 1.8 for every pass before
   it, held at the cap. *)
RECURSIVE BackoffAt(_, _)
BackoffAt(impl, i) ==
    IF i = 1 THEN BackoffStart(impl)
    ELSE Min((BackoffAt(impl, i - 1) * 18) \div 10, BackoffCap(impl))

(* C22: in both trackers the wait after a failed pass is the Retry-After delay
   when the response was a 429 that carries one, and otherwise the backoff in
   force: the base at the first pass, 1.8 times the previous one after every
   failed pass, never above the cap. *)
C22_WaitsRetryAfterElseBackoff ==
    rpc.st # "idle" =>
        \A i \in 1..Len(rpc.sleeps) :
            /\ rpc.sleeps[i] =
                   IF rpc.resps[i].kind = "429" /\ IsFloat(rpc.resps[i].arg)
                     THEN FloatOf(rpc.resps[i].arg)
                     ELSE BackoffAt(rpc.impl, i)
            /\ BackoffAt(rpc.impl, i) <= BackoffCap(rpc.impl)

----------------------------------------------------------------------------
(* The first-activity locator of the aToken tracker *)

AtokenLocated == Located /\ res.impl = "atoken" /\ res.out = "returned"

(* The first block the searches look at. *)
LocatorFloor ==
    LET lo0 == ausdc_block_by_time(chain, ATOKEN_GENESIS_TS, "after")
    IN  IF lo0 <= 0 THEN 1 ELSE lo0

Searched == LocatorFloor.._latest_block(chain)

Holding == {b \in Searched : _balance_of(chain, b) # 0}

Least(S) == CHOOSE b \in S : \A o \in S : b <= o

(* C23: when some block between the lower bound and the head has a non-zero
   balance of the wallet, the balance search of the locator returns the
   earliest such block, whatever the balance did afterwards. *)
C23_EarliestHoldingBlock ==
    (AtokenLocated /\ Holding # {}) => res.fb = Least(Holding)

(* The searched blocks that hold a Transfer log from or to the wallet. *)
WalletLogBlocks ==
    {b \in Searched :
        \E k \in 1..Len(chain[b + 1].logs) :
            WALLET \in {chain[b + 1].logs[k].from, chain[b + 1].logs[k].to}}

(* C24: when the balance search finds nothing, the log the fallback settles
   on is in the earliest block that holds a Transfer log from or to the
   wallet, whether that log is inbound or outbound. *)
C24_FallbackEarliestEitherWay ==
    (AtokenLocated /\ res.fb = NoBlock /\ WalletLogBlocks # {}) =>
        /\ res.first_log # <<>>
        /\ res.first_log[1].blockNumber = Least(WalletLogBlocks)

----------------------------------------------------------------------------
(* Mints and burns *)

(* The Transfer logs of blocks sb..eb, each as <<block, position>>. *)
LogsOfWindow(sb, eb) ==
    {p \in (sb..eb) \X (1..Cardinality(LogCounts)) : p[2] <= Len(chain[p[1] + 1].logs)}

LogAt(p) == chain[p[1] + 1].logs[p[2]]

RECURSIVE SumOfLogs(_)
SumOfLogs(S) ==
    IF S = {} THEN 0
    ELSE LET p == CHOOSE q \in S : TRUE
         IN  LogAt(p).data + SumOfLogs(S \ {p})

(* C25: in an aToken record, inflow is the total of the window's Transfer
   logs from the zero address to the wallet and outflow the total of those
   from the wallet to the zero address; a transfer between the wallet and
   another account is in neither. *)
C25_MintsAndBurnsAreTheFlows ==
    \A i \in RowIdx :
        rows[i].kind = "atoken" =>
            LET W == LogsOfWindow(rows[i].start_block, rows[i].end_block)
            IN  /\ rows[i].inflow =
                      SumOfLogs({p \in W : LogAt(p).from = ZERO /\ LogAt(p).to = WALLET})
                /\ rows[i].outflow =
                      SumOfLogs({p \in W : LogAt(p).from = WALLET /\ LogAt(p).to = ZERO})

(* A record whose window holds a mint and a transfer with a peer. *)
C25_Witness ==
    \E i \in RowIdx :
        /\ rows[i].kind = "atoken"
        /\ rows[i].inflow > 0
        /\ \E p \in LogsOfWindow(rows[i].start_block, rows[i].end_block) :
              PEER \in {LogAt(p).from, LogAt(p).to}

----------------------------------------------------------------------------
(* The chunked log reader *)

Chunking == res.st \in {"chunks", "chunked"}

Chunked == res.st = "chunked"

(* The requests made so far are chunks of the range in ascending order: the
   first starts at start_block, each starts one block after the one before
   it ends, none is empty, longer than chunk_size or past end_block. *)
RequestsInOrder ==
    \A i \in 1..Len(res.reqs) :
        /\ res.reqs[i].fromBlock =
              (IF i = 1 THEN res.start_block ELSE res.reqs[i - 1].toBlock + 1)
        /\ res.reqs[i].fromBlock <= res.reqs[i].toBlock
        /\ res.reqs[i].toBlock - res.reqs[i].fromBlock + 1 <= res.chunk_size
        /\ res.reqs[i].toBlock <= res.end_block

AllMatching == eth_getLogs(chain, res.start_block, res.end_block, res.topics)

(* The requests reach end_block and out is every matching log of the range,
   once, in block order. *)
WholeRangeRead ==
    /\ res.start_block <= res.end_block =>
          (res.reqs # <<>> /\ res.reqs[Len(res.reqs)].toBlock = res.end_block)
    /\ res.out = AllMatching

(* C26 as stated: whenever _get_logs_chunked returns, its requests partition
   [start_block, end_block] and the result is every matching log of the
   range exactly once; with start_block > end_block there is no request and
   the result is empty. *)
C26_ChunksPartitionRange ==
    /\ Chunking => RequestsInOrder
    /\ Chunking /\ res.start_block > res.end_block => res.reqs = <<>> /\ res.out = <<>>
    /\ Chunked => WholeRangeRead

(* C26, amended: the same without stop_at_first; with stop_at_first the
   requests are the chunks up to the first one that holds a matching log and
   the result is that chunk's first log, or they are the whole partition and
   the result is empty. *)
C26_ChunksPartitionUnlessStopped ==
    /\ Chunking => RequestsInOrder
    /\ Chunking /\ res.start_block > res.end_block => res.reqs = <<>> /\ res.out = <<>>
    /\ Chunked /\ ~res.stop_at_first => WholeRangeRead
    /\ Chunked /\ res.stop_at_first =>
          IF AllMatching = <<>> THEN WholeRangeRead
          ELSE /\ res.out = <<AllMatching[1]>>
               /\ res.reqs # <<>>
               /\ res.out[1].blockNumber \in
                     res.reqs[Len(res.reqs)].fromBlock..res.reqs[Len(res.reqs)].toBlock

(* A read in several chunks, the last one shorter, that returns two logs. *)
C26_Witness ==
    /\ Chunked /\ ~res.stop_at_first
    /\ Len(res.reqs) >= 2
    /\ res.reqs[Len(res.reqs)].toBlock - res.reqs[Len(res.reqs)].fromBlock + 1 < res.chunk_size
    /\ Len(res.out) = 2

----------------------------------------------------------------------------
(* The walk against the head it read *)

Walking == pc \in {"day", "end", "done"}

(* C27: the records of an invocation are those of the leading dates of the
   range whose 00:00:00 is not after the head timestamp read at its start:
   every record's date has begun at that head, a finished walk has a record
   for each such date of the range and stopped at the first date that had
   not, and no record's end block is younger than that head or than the end
   of its day (a window clamped to its start block apart). *)
C27_RecordsArePrefixToHead ==
    Walking =>
        /\ \A i \in RowIdx :
              /\ rows[i].date = start_dt + (i - 1)
              /\ DayStartTs(rows[i].date) <= latest_ts
              /\ \/ rows[i].end_block = rows[i].start_block
                 \/ BlockTs(chain, rows[i].end_block)
                        <= Min(DayEndTs(rows[i].date), latest_ts)
        /\ pc = "done" =>
              /\ \A x \in start_dt..end_dt :
                    (DayStartTs(x) <= latest_ts) <=> (\E i \in RowIdx : rows[i].date = x)
              /\ Len(rows) < RangeLen =>
                    (d = start_dt + Len(rows) /\ DayStartTs(d) > latest_ts)

(* A walk cut short at the head, its last day in progress when the head was
   read, with a block of that day mined since. *)
C27_Witness ==
    /\ pc = "done"
    /\ rows # <<>>
    /\ Len(rows) < RangeLen
    /\ DayEndTs(rows[Len(rows)].date) > latest_ts
    /\ \E b \in (latest + 1).._latest_block(chain) :
          /\ BlockTs(chain, b) > latest_ts
          /\ BlockTs(chain, b) <= DayEndTs(rows[Len(rows)].date)

----------------------------------------------------------------------------
(* Day by day against the whole range *)

(* The streaming loop has made its last pass and no block was mined since the
   run began. *)
StreamedUnchanged ==
    /\ ex.st = "loop" /\ ex.stream /\ ex.cur > ex.end_dt
    /\ ex.head = _latest_block(chain)

(* C28: when the chain did not change during a streamed run, the frames of
   its single-day engine calls, in date order, are the records one engine
   call over the whole window returns. *)
C28_DayByDayIsRange ==
    StreamedUnchanged =>
        ex.fetched = Tagged(ex.which, EngineRange(ex.which, ChainFor(chain, ex.wallet),
                                                  ex.start_dt, ex.end_dt))

(* A streamed window of three days of which the head has reached two, over
   more than one block. *)
C28_Witness ==
    /\ StreamedUnchanged
    /\ ex.end_dt - ex.start_dt = 2
    /\ Len(ex.fetched) = 2
    /\ ex.fetched[1].end_block # ex.fetched[2].end_block

----------------------------------------------------------------------------
(* Dates and wallets in the accumulated result set *)

(* C29: the accumulator never holds two rows for one date (one date and token
   address, for aTokens), also when a date is computed again after the head
   has advanced. *)
C29_OneRowPerDate ==
    \A i, j \in 1..Len(Acc) :
        (i # j /\ Acc[i].token_address = Acc[j].token_address) =>
            Acc[i].date # Acc[j].date

(* The row the engine computes for wallet w over the block window of r. *)
RowFor(w, r) ==
    Tagged(ex.tab, <<IF r.kind = "atoken"
                       THEN atoken_row(ChainFor(chain, w), r.date, r.start_block, r.end_block)
                       ELSE steth_row(ChainFor(chain, w), r.date, r.start_block,
                                      r.end_block)>>)[1]

(* C30: the rows of an accumulator are all rows of one wallet, also after the
   wallet input was changed between two runs. *)
C30_OneWalletPerAccumulator ==
    \E w \in Wallets : \A i \in 1..Len(Acc) : Acc[i] = RowFor(w, Acc[i])

----------------------------------------------------------------------------
(* Successive next windows *)

(* The dates an accumulator holds for one token. *)
DatesOf(acc, a) == {acc[i].date : i \in {j \in 1..Len(acc) : acc[j].token_address = a}}

GapFree(D) == \A x, y \in D : \A z \in x..y : z \in D

Latest(D) == CHOOSE m \in D : \A x \in D : x <= m

(* Every run of the session so far was a "Compute next window" whose engine
   calls all returned. *)
NextRunsOnly == "yday" \in DOMAIN ex /\ ex.clean

(* The last click was such a run. *)
NextRan == NextRunsOnly /\ ex.st = "over"

(* C31: after any sequence of "Compute next window" runs from an empty
   accumulator, the dates held for each token are consecutive, and a window
   computed for a token that already had dates began on the day after the
   last of them, or yesterday if that is earlier, and spanned at most 180
   days; also when the active aToken was switched between runs. *)
C31_NextWindowsGapFree ==
    NextRunsOnly =>
        /\ \A a \in TokensOf(ex.tab) : GapFree(DatesOf(Acc, a))
        /\ (NextRan /\ DatesOf(ex.held, ex.token) # {}) =>
              /\ ex.start_dt = Min(Latest(DatesOf(ex.held, ex.token)) + 1, ex.yday)
              /\ ex.end_dt - ex.start_dt + 1 <= WINDOW_CAP

(* The same with one token throughout: the rows of the accumulator all carry
   the active token's address. *)
OneTokenWindowsGapFree ==
    (NextRunsOnly /\ \A i \in 1..Len(Acc) : Acc[i].token_address = ex.token) =>
        C31_NextWindowsGapFree

====
